---- MODULE Spec2Model ----
(***************************************************************************)
(* A model of the wsgateway connection-admission and connection-           *)
(* establishment core:                                                     *)
(*   - internal/limiter  TokenLimiter (token bucket with a ramp-up)        *)
(*   - pkg/session       redisSession / RedisSessionBuilder                *)
(*   - internal/upgrader Upgrader.Upgrade and its handshake hooks          *)
(* Each component has its own specification over the shared variables:     *)
(*   Spec        the limiter with one ramp-up activity                     *)
(*   LiveSpec    the limiter, ramp-up never cancelled, fair ramp-up steps  *)
(*   CancelSpec  the limiter, fair ramp-up steps, both cancellations       *)
(*   TwoRampSpec the limiter with two ramp-up activities                   *)
(*   ConstructSpec the limiter from NewTokenLimiter on, any configuration  *)
(*   SessionSpec the session store driven by Build/Get/Set/Destroy         *)
(*   UpgradeSpec concurrent Upgrade calls over the session store           *)
(***************************************************************************)
EXTENDS Integers, Sequences, FiniteSets, TLC

(* ------------------------------ bounds -------------------------------- *)
\* largest MaxCapacity a configuration of the model may have
MaxCap == 3
\* largest IncreaseStep a configuration of the model may have
MaxStep == 2
\* how many Release calls without an outstanding unit the callers may make
MaxOver == 2
\* how many times the callers may call Close
MaxCloses == 2
\* how many records Build may create (each gets its own clock reading)
MaxClock == 2
\* how many times one key's record may be removed by Destroy
MaxDestroys == 1
\* how many header lines one handshake request may carry
MaxHeaders == 2
\* how long a payload handed to the Writer may be
MaxPayload == 2
\* how many bytes a frame the Writer sends may carry
FrameRoom == 1
\* how many payloads the Writer's callers write
MaxMsgs == 2
\* how large, in absolute value, the numbers of an identity may be
MaxId == 11

VARIABLES
  \* ---- limiter (src/internal/limiter/connection_limiter.go) ----
  cfg,              \* TokenLimiter.config: [initial, max, step, interval]
  newErr,           \* NewTokenLimiter's error: "nil" with a controller,
                    \* "pending" before the call
  tokens,           \* len(t.tokens): units in the buffered channel
  currentCapacity,  \* t.currentCapacity
  closed,           \* t.ctx is cancelled (Close was called)
  extCancelled,     \* per ramp-up activity: its ctx argument is cancelled
  rpc,              \* per ramp-up activity: position in StartRampUp
  rcur,             \* per ramp-up activity: local `current`
  rnew,             \* per ramp-up activity: local `newCapacity`
  ri,               \* per ramp-up activity: loop index `i` of the add loop
  outstanding,      \* history: successful Acquire calls not yet Released
  overReleases,     \* history: Release calls made with nothing outstanding
  ticksDone,        \* history: ramp ticks that ran to their Store
  last,             \* history: the last Acquire/Release call, its result
                    \* and whether Close had been called before it
  closeCalls,       \* history: Close calls made
  \* ---- session store (src/pkg/session/provider.go) ----
  store,            \* the backend: key -> hash record (no fields = no key)
  now,              \* the reading time.Now() gives next
  spc,              \* per caller: "idle", or "init" inside Build
  pend,             \* per caller: the redisSession `s` Build is initializing
  bres,             \* per caller: what its last Build returned; the
                    \* session in it is the handle the caller uses
  ores,             \* per caller: what its last Get or Destroy returned,
                    \* and for a Get whether it came after a Destroy that
                    \* no Build or Set had followed
  created,          \* history: per key, records created by Build's script
  deleted,          \* history: per key, records removed by Destroy
  isNewCount,       \* history: per key, Build calls that returned isNew
  \* ---- upgrader (src/internal/upgrader/upgrader.go) ----
  compressionEnabled, \* u.compressionConfig.Enabled
  upc,              \* per connection: position of its Upgrade call
  uUserInfo,        \* per connection: Upgrade's local userInfo
  uAutoClose,       \* per connection: Upgrade's local autoClose
  uss,              \* per connection: Upgrade's local ss
  extAccepted,      \* per connection: ext.Accepted() (ext is per call)
  herr,             \* per connection: the handshake's error so far
  nhdr,             \* per connection: header lines read
  ret,              \* per connection: what Upgrade returned
  reqKind,          \* history: per connection, the kind of request target
  reqTarget,        \* history: per connection, the request target itself
  gotIsNew,         \* history: per connection, what Build reported
  negFailed,        \* history: per connection, a deflate offer was refused
  upgraded,         \* history: per connection, the 101 response was sent
  hseen,            \* history: per connection, the header lines read so
                    \* far: whether the last auto-close header had the
                    \* value "true", whether any had, whether a header
                    \* that is neither auto-close nor an offer had an effect,
                    \* and whether an acceptable extension offer was read
  \* ---- wswrapper Reader and Writer (src/internal/upgrader/upgrader.go) ----
  wCompressed,      \* Writer.messageState.IsCompressed(), set at creation
  wire,             \* the stream from the Writer's dest to the Reader's
                    \* conn: the frames not yet read
  sent,             \* history: the payloads written, in order
  got,              \* history: what each Read returned, in order
  injected,         \* history: whether the peer or the transport put a
                    \* frame or a fault into the stream
  ctlHandled,       \* history: control frames given to the control handler
  \* ---- key derivation (src/pkg/session/provider.go) ----
  keyArgs,          \* the (bizID, userID) pairs of two Build calls
  keyOut            \* the keys of the handles made for them, once made

limVars == <<cfg, newErr, tokens, currentCapacity, closed, extCancelled,
             rpc, rcur, rnew, ri, outstanding, overReleases, ticksDone,
             last, closeCalls>>

sessVars == <<store, now, spc, pend, bres, ores, created, deleted,
              isNewCount>>

upVars == <<compressionEnabled, upc, uUserInfo, uAutoClose, uss, extAccepted,
            herr, nhdr, ret, reqKind, reqTarget, gotIsNew, negFailed,
            upgraded, hseen>>

wireVars == <<wCompressed, wire, sent, got, injected, ctlHandled>>

keyVars == <<keyArgs, keyOut>>

vars == <<limVars, sessVars, upVars, wireVars, keyVars>>

(* ============================ the limiter ============================== *)

\* The two ramp-up activities the model knows; Spec starts only the first.
RampIds == {1, 2}

\* The configurations handed to NewTokenLimiter, the invalid ones included
\* (IncreaseInterval counts ticker periods).
ConfigInputs ==
  [initial : -1..MaxCap, max : -1..MaxCap, step : -1..MaxStep,
   interval : -1..1]

\* NewTokenLimiter's validation: the error of the first check that fails.
ConfigError(c) ==
  IF c.max <= 0 THEN "MaxCapacity must be positive"
  ELSE IF c.initial < 0 THEN "InitialCapacity must not be negative"
  ELSE IF c.initial > c.max THEN "InitialCapacity above MaxCapacity"
  ELSE IF c.step <= 0 THEN "IncreaseStep must be positive"
  ELSE IF c.interval <= 0 THEN "IncreaseInterval must be positive"
  ELSE "nil"

ValidConfig(c) ==
  /\ ~(c.max <= 0)
  /\ ~(c.initial < 0)
  /\ ~(c.initial > c.max)
  /\ ~(c.step <= 0)
  /\ ~(c.interval <= 0)

\* The configurations NewTokenLimiter accepts.
Configs == { c \in ConfigInputs : ValidConfig(c) }

\* cap(t.tokens): the channel is made with MaxCapacity slots.
ChanCap == cfg.max

NoCall ==
  [op |-> "none", ok |-> FALSE, over |-> FALSE, closed |-> FALSE]

\* The state NewTokenLimiter returns for a valid configuration.
LimiterInit ==
  /\ cfg \in Configs
  /\ newErr = "nil"
  /\ tokens = cfg.initial
  /\ currentCapacity = cfg.initial
  /\ closed = FALSE
  /\ extCancelled = [r \in RampIds |-> FALSE]
  /\ rpc = [r \in RampIds |-> "off"]
  /\ rcur = [r \in RampIds |-> 0]
  /\ rnew = [r \in RampIds |-> 0]
  /\ ri = [r \in RampIds |-> 0]
  /\ outstanding = 0
  /\ overReleases = 0
  /\ ticksDone = 0
  /\ last = NoCall
  /\ closeCalls = 0

\* NewTokenLimiter(cfg): a configuration error and no controller, or the
\* channel of MaxCapacity slots filled with InitialCapacity units and
\* currentCapacity.Store(InitialCapacity).
NewTokenLimiter ==
  /\ newErr = "pending"
  /\ newErr' = ConfigError(cfg)
  /\ IF ConfigError(cfg) = "nil"
       THEN /\ tokens' = cfg.initial
            /\ currentCapacity' = cfg.initial
       ELSE UNCHANGED <<tokens, currentCapacity>>
  /\ UNCHANGED <<cfg, closed, extCancelled, rpc, rcur, rnew, ri, outstanding,
                 overReleases, ticksDone, last, closeCalls>>
  /\ UNCHANGED <<sessVars, upVars, wireVars, keyVars>>

\* newCapacity := current + step, clamped to MaxCapacity.
NewCapacityNoClamp(current) == current + cfg.step

\* a tick that would go to the maximum at once
NewCapacityToMax(current) == cfg.max

NewCapacity(current) ==
  IF current + cfg.step > cfg.max THEN cfg.max ELSE current + cfg.step

\* go t.StartRampUp(ctx): the activity enters its select loop.
StartRampUp(r) ==
  /\ newErr = "nil"
  /\ UNCHANGED <<sessVars, upVars, wireVars, keyVars, newErr>>
  /\ rpc[r] = "off"
  /\ rpc' = [rpc EXCEPT ![r] = "select"]
  /\ UNCHANGED closeCalls
  /\ UNCHANGED <<cfg, tokens, currentCapacity, closed, extCancelled, rcur,
                 rnew, ri, outstanding, overReleases, ticksDone, last>>

\* select: case <-ctx.Done() / case <-t.ctx.Done(): return.
RampCancelled(r) ==
  /\ newErr = "nil"
  /\ UNCHANGED <<sessVars, upVars, wireVars, keyVars, newErr>>
  /\ rpc[r] = "select"
  /\ closed \/ extCancelled[r]
  /\ rpc' = [rpc EXCEPT ![r] = "exited"]
  /\ UNCHANGED closeCalls
  /\ UNCHANGED <<cfg, tokens, currentCapacity, closed, extCancelled, rcur,
                 rnew, ri, outstanding, overReleases, ticksDone, last>>

\* select: case <-ticker.C: load the capacity, return at the maximum, or
\* compute newCapacity and enter the add loop. (select picks any ready case,
\* so a tick may be taken although a cancellation is ready too.)
RampTick(r) ==
  /\ newErr = "nil"
  /\ UNCHANGED <<sessVars, upVars, wireVars, keyVars, newErr>>
  /\ rpc[r] = "select"
  /\ IF currentCapacity >= cfg.max
       THEN /\ rpc' = [rpc EXCEPT ![r] = "exited"]
            /\ UNCHANGED <<rcur, rnew, ri>>
       ELSE /\ rcur' = [rcur EXCEPT ![r] = currentCapacity]
            /\ rnew' = [rnew EXCEPT ![r] = NewCapacity(currentCapacity)]
            /\ ri' = [ri EXCEPT ![r] = 0]
            /\ rpc' = [rpc EXCEPT ![r] = "adding"]
  /\ UNCHANGED closeCalls
  /\ UNCHANGED <<cfg, tokens, currentCapacity, closed, extCancelled,
                 outstanding, overReleases, ticksDone, last>>

\* one iteration of the add loop: t.tokens <- struct{}{} (a blocking send: it
\* waits while the channel holds MaxCapacity units).
RampAddToken(r) ==
  /\ newErr = "nil"
  /\ UNCHANGED <<sessVars, upVars, wireVars, keyVars, newErr>>
  /\ rpc[r] = "adding"
  /\ ri[r] < rnew[r] - rcur[r]
  /\ tokens < ChanCap
  /\ tokens' = tokens + 1
  /\ ri' = [ri EXCEPT ![r] = ri[r] + 1]
  /\ UNCHANGED closeCalls
  /\ UNCHANGED <<cfg, currentCapacity, closed, extCancelled, rpc, rcur, rnew,
                 outstanding, overReleases, ticksDone, last>>

\* after the loop: t.currentCapacity.Store(newCapacity), back to the select.
RampStore(r) ==
  /\ newErr = "nil"
  /\ UNCHANGED <<sessVars, upVars, wireVars, keyVars, newErr>>
  /\ rpc[r] = "adding"
  /\ ~(ri[r] < rnew[r] - rcur[r])
  /\ currentCapacity' = rnew[r]
  /\ rpc' = [rpc EXCEPT ![r] = "select"]
  /\ ticksDone' = ticksDone + 1
  /\ UNCHANGED closeCalls
  /\ UNCHANGED <<cfg, tokens, closed, extCancelled, rcur, rnew, ri,
                 outstanding, overReleases, last>>

\* Acquire as a plain receive from t.tokens, which waits for a unit.
AcquireBlocking ==
  /\ newErr = "nil"
  /\ UNCHANGED <<sessVars, upVars, wireVars, keyVars, newErr>>
  /\ tokens > 0
  /\ tokens' = tokens - 1
  /\ outstanding' = outstanding + 1
  /\ last' = [op |-> "Acquire", ok |-> TRUE, over |-> FALSE,
              closed |-> closed]
  /\ UNCHANGED <<closeCalls, cfg, currentCapacity, closed, extCancelled, rpc,
                 rcur, rnew, ri, overReleases, ticksDone>>

\* Acquire: a non-blocking receive from t.tokens (select with a default).
Acquire ==
  /\ newErr = "nil"
  /\ UNCHANGED <<sessVars, upVars, wireVars, keyVars, newErr>>
  /\ IF tokens > 0
       THEN /\ tokens' = tokens - 1
            /\ outstanding' = outstanding + 1
            /\ last' = [op |-> "Acquire", ok |-> TRUE, over |-> FALSE,
                         closed |-> closed]
       ELSE /\ last' = [op |-> "Acquire", ok |-> FALSE, over |-> FALSE,
                         closed |-> closed]
            /\ UNCHANGED <<tokens, outstanding>>
  /\ UNCHANGED closeCalls
  /\ UNCHANGED <<cfg, currentCapacity, closed, extCancelled, rpc, rcur, rnew,
                 ri, overReleases, ticksDone>>

\* The result of Release: the non-blocking send succeeds unless the channel
\* is full.
ReleaseSucceedsBelowCapacity == tokens < currentCapacity

ReleaseSucceeds == tokens < ChanCap

\* Release: a non-blocking send to t.tokens. A call with a unit outstanding
\* gives that unit back; a call with none outstanding is an over-release
\* (the callers make at most MaxOver of them).
Release ==
  /\ newErr = "nil"
  /\ UNCHANGED <<sessVars, upVars, wireVars, keyVars, newErr>>
  /\ outstanding = 0 => overReleases < MaxOver
  /\ tokens' = IF ReleaseSucceeds THEN tokens + 1 ELSE tokens
  /\ last' = [op |-> "Release", ok |-> ReleaseSucceeds,
              over |-> (outstanding = 0), closed |-> closed]
  /\ outstanding' = IF outstanding > 0 THEN outstanding - 1 ELSE 0
  /\ overReleases' = IF outstanding = 0 THEN overReleases + 1
                     ELSE overReleases
  /\ UNCHANGED closeCalls
  /\ UNCHANGED <<cfg, currentCapacity, closed, extCancelled, rpc, rcur, rnew,
                 ri, ticksDone>>

\* Close cancelling more than the internal context: it would also empty the
\* pool and forget the units that are out.
CloseRevoking ==
  /\ newErr = "nil"
  /\ UNCHANGED <<sessVars, upVars, wireVars, keyVars, newErr>>
  /\ closeCalls < MaxCloses
  /\ closeCalls' = closeCalls + 1
  /\ closed' = TRUE
  /\ tokens' = 0
  /\ outstanding' = 0
  /\ UNCHANGED <<cfg, currentCapacity, extCancelled, rpc, rcur, rnew, ri,
                 overReleases, ticksDone, last>>

\* Close: t.cancel(), and nothing else; cancelling a cancelled context
\* changes nothing. (The callers call it at most MaxCloses times.)
Close ==
  /\ newErr = "nil"
  /\ UNCHANGED <<sessVars, upVars, wireVars, keyVars, newErr>>
  /\ closeCalls < MaxCloses
  /\ closeCalls' = closeCalls + 1
  /\ closed' = TRUE
  /\ UNCHANGED <<cfg, tokens, currentCapacity, extCancelled, rpc, rcur, rnew,
                 ri, outstanding, overReleases, ticksDone, last>>

\* the caller of StartRampUp cancels the ctx it passed.
CancelExternal(r) ==
  /\ newErr = "nil"
  /\ UNCHANGED <<sessVars, upVars, wireVars, keyVars, newErr>>
  /\ rpc[r] # "off"
  /\ extCancelled' = [extCancelled EXCEPT ![r] = TRUE]
  /\ UNCHANGED closeCalls
  /\ UNCHANGED <<cfg, tokens, currentCapacity, closed, rpc, rcur, rnew, ri,
                 outstanding, overReleases, ticksDone, last>>

(* ========================== the session store ========================== *)

\* Identities the callers use, the callers, and what they Set.
BizIDs == {1}
UserIDs == {7, 8}
Procs == {1, 2}
SetFields == {"role"}
SetValues == {"admin", "guest"}

\* session.UserInfo
UserInfos == [bizID : BizIDs, userID : UserIDs, autoClose : BOOLEAN]

\* The verb %d of fmt.Sprintf on an int64: the decimal digits of the number,
\* most significant first, after a minus sign when it is negative.
DigitChars == <<"0", "1", "2", "3", "4", "5", "6", "7", "8", "9">>

RECURSIVE Digits(_)
Digits(n) ==
  IF n < 10 THEN <<DigitChars[n + 1]>>
  ELSE Digits(n \div 10) \o <<DigitChars[(n % 10) + 1]>>

FormatInt(n) == IF n < 0 THEN <<"-">> \o Digits(-n) ELSE Digits(n)

\* fmt.Sprintf(keyFormat, bizID, userID): the text of the key, character by
\* character where the numbers are, the literal parts of the format whole.
keyFormatUnseparated(bizID, userID) ==
  <<"gateway:session:bizId:">> \o FormatInt(bizID) \o FormatInt(userID)

keyFormat(bizID, userID) ==
  <<"gateway:session:bizId:">> \o FormatInt(bizID)
    \o <<":userId:">> \o FormatInt(userID)

\* The keys of the backend: those of the identities above and of the zero
\* identity (claims without user_id and biz_id decode to 0).
Keys ==
  { keyFormat(b, u) : b \in BizIDs, u \in UserIDs } \cup {keyFormat(0, 0)}

\* A hash record: the fields it has and their values. A key with no field
\* does not exist in the backend.
NoRecord == [has |-> {}, loginTime |-> 0, role |-> ""]

\* a nil Session, and the handle newRedisSession makes
NilSession == [nil |-> TRUE]

newRedisSession(userInfo) ==
  [nil |-> FALSE, userInfo |-> userInfo,
   key |-> keyFormat(userInfo.bizID, userInfo.userID)]

NoBuild ==
  [done |-> FALSE, session |-> NilSession, isNew |-> FALSE, err |-> "nil",
   failed |-> FALSE, overlapped |-> FALSE]

NoResult == [op |-> "none", found |-> FALSE, err |-> "nil", gone |-> FALSE]

SessionInit ==
  /\ store = [k \in Keys |-> NoRecord]
  /\ now = 1
  /\ spc = [p \in Procs |-> "idle"]
  /\ pend = [p \in Procs |-> NilSession]
  /\ bres = [p \in Procs |-> NoBuild]
  /\ ores = [p \in Procs |-> NoResult]
  /\ created = [k \in Keys |-> 0]
  /\ deleted = [k \in Keys |-> 0]
  /\ isNewCount = [k \in Keys |-> 0]

\* HSET key loginTime t
HSetLoginTime(rec, t) ==
  [rec EXCEPT !.has = @ \cup {"loginTime"}, !.loginTime = t]

\* HSET key field value, for a field callers Set
HSetField(rec, field, value) ==
  [rec EXCEPT !.has = @ \cup {field}, !.role = value]

\* redis.call('EXISTS', KEYS[1]) == 1
LuaExistsNever(k) == FALSE

LuaExists(k) == store[k].has # {}

\* The script with the HSET outside the test: the login time is written
\* whether or not the key exists.
LuaSetSessionAlways(k, t) ==
  [ret |-> IF LuaExists(k) THEN 0 ELSE 1,
   store |-> [store EXCEPT ![k] = HSetLoginTime(@, t)]]

\* luaSetSessionIfNotExist: what the script returns and the store it leaves.
LuaSetSessionIfNotExist(k, t) ==
  IF ~LuaExists(k)
    THEN [ret |-> 1, store |-> [store EXCEPT ![k] = HSetLoginTime(@, t)]]
    ELSE [ret |-> 0, store |-> store]

\* redisSession.initialize: the error it returns, from whether the script
\* run failed in the backend and from the script's result.
initialize(failed, res) ==
  IF failed THEN "ErrCreateSessionFailed"
  ELSE IF res # 1 THEN "ErrSessionExisted"
  ELSE "nil"

\* Build without the case for ErrSessionExisted: every error of initialize
\* would be a failure.
BuildReturnExistedIsFailure(s, err) ==
  IF err = "nil" THEN [session |-> s, isNew |-> TRUE, err |-> "nil"]
  ELSE [session |-> NilSession, isNew |-> FALSE, err |-> err]

\* RedisSessionBuilder.Build: the switch on initialize's error.
BuildReturn(s, err) ==
  CASE err = "nil" ->
         [session |-> s, isNew |-> TRUE, err |-> "nil"]
    [] err = "ErrSessionExisted" ->
         [session |-> s, isNew |-> FALSE, err |-> "nil"]
    [] OTHER ->
         [session |-> NilSession, isNew |-> FALSE, err |-> err]

\* Build, first part: s := newRedisSession(userInfo, r.rdb).
BuildStart(p, info) ==
  /\ spc[p] = "idle"
  /\ spc' = [spc EXCEPT ![p] = "init"]
  /\ pend' = [pend EXCEPT ![p] = newRedisSession(info)]
  /\ bres' = [bres EXCEPT ![p] = NoBuild]
  /\ UNCHANGED <<store, now, ores, created, deleted, isNewCount>>
  /\ UNCHANGED <<limVars, upVars, wireVars, keyVars>>

\* Build, second part: s.initialize reads the clock and runs the script (one
\* indivisible backend operation, or a backend failure that writes nothing)
\* and Build returns. The clock moves on when its reading was written, so
\* two records never carry the same loginTime.
BuildRun(p, failed) ==
  /\ spc[p] = "init"
  /\ (~failed /\ ~LuaExists(pend[p].key)) => now <= MaxClock
  /\ LET k == pend[p].key
         run == LuaSetSessionIfNotExist(k, now)
         scriptRet == IF failed THEN 0 ELSE run.ret
         out == BuildReturn(pend[p], initialize(failed, scriptRet))
     IN /\ store' = IF failed THEN store ELSE run.store
        /\ now' = IF ~failed /\ run.ret = 1 THEN now + 1 ELSE now
        /\ created' = IF ~failed /\ run.ret = 1
                        THEN [created EXCEPT ![k] = @ + 1] ELSE created
        /\ isNewCount' = IF out.isNew
                           THEN [isNewCount EXCEPT ![k] = @ + 1]
                           ELSE isNewCount
        /\ bres' = [bres EXCEPT ![p] =
                      [done |-> TRUE, session |-> out.session,
                       isNew |-> out.isNew, err |-> out.err,
                       failed |-> failed,
                       overlapped |->
                         \E q \in Procs \ {p} :
                           spc[q] = "init" /\ pend[q].key = k]]
  /\ spc' = [spc EXCEPT ![p] = "idle"]
  /\ pend' = [pend EXCEPT ![p] = NilSession]
  /\ UNCHANGED <<ores, deleted>>
  /\ UNCHANGED <<limVars, upVars, wireVars, keyVars>>

\* HGET key field: the value, or redis.Nil for a missing field or key.
HGet(rec, field) ==
  IF field \in rec.has
    THEN [found |-> TRUE, time |-> IF field = "loginTime" THEN rec.loginTime
                                   ELSE 0,
          text |-> IF field = "loginTime" THEN "" ELSE rec.role,
          err |-> "nil"]
    ELSE [found |-> FALSE, time |-> 0, text |-> "", err |-> "redis.Nil"]

\* redisSession.Get: s.rdb.HGet(ctx, s.key, key).Result()
Get(p, field) ==
  /\ spc[p] = "idle"
  /\ ~bres[p].session.nil
  /\ LET r == HGet(store[bres[p].session.key], field)
     IN ores' = [ores EXCEPT ![p] =
                   [op |-> "Get", found |-> r.found, err |-> r.err,
                    gone |-> /\ deleted[bres[p].session.key] > 0
                             /\ store[bres[p].session.key].has = {}]]
  /\ UNCHANGED <<store, now, spc, pend, bres, created, deleted, isNewCount>>
  /\ UNCHANGED <<limVars, upVars, wireVars, keyVars>>

\* redisSession.Set: HSET key field value (it makes the key if there is
\* none); the backend's reply is not an error.
Set(p, field, value) ==
  /\ spc[p] = "idle"
  /\ ~bres[p].session.nil
  /\ store' = [store EXCEPT ![bres[p].session.key] =
                 HSetField(@, field, value)]
  /\ UNCHANGED <<now, spc, pend, bres, ores, created, deleted, isNewCount>>
  /\ UNCHANGED <<limVars, upVars, wireVars, keyVars>>

\* A Destroy that removes the creation timestamp and keeps the other fields.
HDelLoginTime(k) == [store EXCEPT ![k].has = @ \ {"loginTime"}]

\* DEL key: the store without the key's record.
Del(k) == [store EXCEPT ![k] = NoRecord]

\* redisSession.Destroy: DEL key; a backend failure is wrapped in
\* ErrDestroySessionFailed and removes nothing.
Destroy(p, failed) ==
  /\ spc[p] = "idle"
  /\ ~bres[p].session.nil
  /\ LET k == bres[p].session.key
     IN /\ (~failed /\ store[k].has # {}) => deleted[k] < MaxDestroys
        /\ store' = IF failed THEN store ELSE Del(k)
        /\ deleted' = IF ~failed /\ store[k].has # {}
                        THEN [deleted EXCEPT ![k] = @ + 1] ELSE deleted
  /\ ores' = [ores EXCEPT ![p] =
                [op |-> "Destroy", found |-> FALSE,
                 err |-> IF failed THEN "ErrDestroySessionFailed" ELSE "nil",
                 gone |-> FALSE]]
  /\ UNCHANGED <<now, spc, pend, bres, created, isNewCount>>
  /\ UNCHANGED <<limVars, upVars, wireVars, keyVars>>

\* ---- key derivation ----

\* The identities the keys are derived for: zero, negative and positive
\* numbers, of one digit and of more.
KeyIds == (-MaxId)..MaxId

NoKeys == <<>>

\* No key is being derived.
KeyIdle == keyArgs = <<<<0, 0>>, <<0, 0>>>> /\ keyOut = NoKeys

\* newRedisSession for each of the two identities: the keys of the handles.
newRedisSessionKeys ==
  /\ keyOut = NoKeys
  /\ keyOut' = <<keyFormat(keyArgs[1][1], keyArgs[1][2]),
                 keyFormat(keyArgs[2][1], keyArgs[2][2])>>
  /\ UNCHANGED keyArgs
  /\ UNCHANGED <<limVars, sessVars, upVars, wireVars>>

(* ============================= the upgrader ============================ *)

\* The connections handed to Upgrade.
Conns == {1, 2}

\* The zero UserInfo, the nil *compression.State, and "Upgrade has not
\* returned".
ZeroUserInfo == [bizID |-> 0, userID |-> 0, autoClose |-> FALSE]

NoCompression == [nil |-> TRUE]

NoReturn == [session |-> NilSession, compression |-> NoCompression,
             err |-> "pending"]

\* Request targets: an unparsable URI, or a URI whose token parameter is
\* missing, not a JWT, expired, or decodes to the claims (bizID, userID).
Targets ==
  [kind : {"badURI", "noToken", "badToken", "expiredToken"},
   bizID : {0}, userID : {0}]
  \cup [kind : {"valid"}, bizID : BizIDs, userID : UserIDs]

\* Header lines: the auto-close header in several spellings and values, an
\* extension offer, or some other header.
HeaderLines ==
  [name : {"X-AutoClose", "x-autoclose"}, value : {"true", "false", "TRUE"}]
  \cup [name : {"Sec-WebSocket-Extensions"},
        value : {"deflate-ok", "deflate-unacceptable", "deflate-malformed"}]
  \cup [name : {"X-Other"}, value : {"true"}]

\* No request line was read yet.
NoTarget == [kind |-> "none", bizID |-> 0, userID |-> 0]

NoHeaders ==
  [lastAuto |-> "none", anyTrue |-> FALSE, otherActed |-> FALSE,
   offerOk |-> FALSE]

UpgraderInit ==
  /\ compressionEnabled \in BOOLEAN
  /\ upc = [c \in Conns |-> "idle"]
  /\ uUserInfo = [c \in Conns |-> ZeroUserInfo]
  /\ uAutoClose = [c \in Conns |-> FALSE]
  /\ uss = [c \in Conns |-> NilSession]
  /\ extAccepted = [c \in Conns |-> FALSE]
  /\ herr = [c \in Conns |-> "nil"]
  /\ nhdr = [c \in Conns |-> 0]
  /\ ret = [c \in Conns |-> NoReturn]
  /\ reqKind = [c \in Conns |-> "none"]
  /\ reqTarget = [c \in Conns |-> NoTarget]
  /\ gotIsNew = [c \in Conns |-> "none"]
  /\ negFailed = [c \in Conns |-> FALSE]
  /\ upgraded = [c \in Conns |-> FALSE]
  /\ hseen = [c \in Conns |-> NoHeaders]

\* UserToken.Decode / Token.Decode: the error for a token that is missing,
\* not a JWT or expired.
DecodeErr(target) ==
  IF target.kind \in {"noToken", "badToken", "expiredToken"}
    THEN "ErrDecodeJWTTokenFailed" ELSE "nil"

\* Upgrader.getUserInfo: the UserInfo and the error for a request target.
getUserInfo(target) ==
  IF target.kind = "badURI"
    THEN [userInfo |-> ZeroUserInfo, err |-> "ErrInvalidURI"]
  ELSE IF DecodeErr(target) # "nil"
    THEN [userInfo |-> ZeroUserInfo, err |-> "ErrInvalidUserToken"]
  ELSE [userInfo |-> [bizID |-> target.bizID, userID |-> target.userID,
                      autoClose |-> FALSE],
        err |-> "nil"]

\* The OnRequest hook: the error it hands to the handshake.
OnRequestErrDropped(target) == "nil"

OnRequestErr(target) == getUserInfo(target).err

\* strings.EqualFold(key, "X-AutoClose")
Lower(name) ==
  CASE name = "X-AutoClose" -> "x-autoclose"
    [] name = "x-autoclose" -> "x-autoclose"
    [] name = "Sec-WebSocket-Extensions" -> "sec-websocket-extensions"
    [] name = "X-Other" -> "x-other"

EqualExact(a, b) == a = b

EqualFold(a, b) == Lower(a) = Lower(b)

\* An OnHeader that only ever sets the flag.
OnHeaderLatching(autoClose, h) ==
  IF EqualFold(h.name, "X-AutoClose") THEN autoClose \/ h.value = "true"
  ELSE autoClose

\* The OnHeader hook: the autoClose it leaves.
OnHeader(autoClose, h) ==
  IF EqualFold(h.name, "X-AutoClose") THEN h.value = "true" ELSE autoClose

\* ext.Negotiate on one offer, as the Negotiate hook calls it: a malformed
\* offer is an error, an unacceptable one is declined, and the first
\* acceptable one is accepted.
ExtNegotiate(accepted, offer) ==
  IF accepted THEN [accepted |-> TRUE, err |-> "nil"]
  ELSE IF offer = "deflate-malformed"
    THEN [accepted |-> FALSE, err |-> "ErrNegotiate"]
  ELSE IF offer = "deflate-unacceptable"
    THEN [accepted |-> FALSE, err |-> "nil"]
  ELSE [accepted |-> TRUE, err |-> "nil"]

\* A Negotiate hook over one ext shared by all the calls: an offer accepted
\* for one connection would count for the others.
NegotiateHookShared(accepted, offer) ==
  IF compressionEnabled
    THEN ExtNegotiate(\E d \in Conns : extAccepted[d], offer)
  ELSE [accepted |-> FALSE, err |-> "nil"]

\* The Negotiate hook: with ext it returns what ext.Negotiate returns, its
\* error included; without ext an empty option and no error.
NegotiateHook(accepted, offer) ==
  IF compressionEnabled THEN ExtNegotiate(accepted, offer)
  ELSE [accepted |-> FALSE, err |-> "nil"]

\* OnBeforeUpgrade going on after an error of Build.
OnBeforeUpgradeErrIgnored(buildErr, isNew) == "nil"

\* The OnBeforeUpgrade hook: the error it returns. For a session that
\* existed, ErrExistedUser is assigned to the local err and logged, and the
\* hook returns nil.
OnBeforeUpgradeErr(buildErr, isNew) ==
  IF buildErr # "nil" THEN buildErr ELSE "nil"

\* A compression state for every handshake that succeeded.
CompressionStateAlways(accepted) ==
  [nil |-> FALSE, enabled |-> TRUE, parameters |-> "negotiated"]

\* The compression state Upgrade returns after a handshake that succeeded.
CompressionState(accepted) ==
  IF compressionEnabled /\ accepted
    THEN [nil |-> FALSE, enabled |-> TRUE, parameters |-> "negotiated"]
    ELSE NoCompression

\* Upgrade(conn) is called: its locals, and ext if compression is enabled.
UpgradeCall(c) ==
  /\ upc[c] = "idle"
  /\ upc' = [upc EXCEPT ![c] = "request"]
  /\ UNCHANGED <<hseen, reqTarget>>
  /\ UNCHANGED <<compressionEnabled, uUserInfo, uAutoClose, uss, extAccepted,
                 herr, nhdr, ret, reqKind, gotIsNew, negFailed, upgraded>>
  /\ UNCHANGED <<limVars, sessVars, wireVars, keyVars>>

\* The handshake reads the request line and calls OnRequest with its target;
\* an error ends the reading of the request.
OnRequest(c, target) ==
  /\ upc[c] = "request"
  /\ uUserInfo' = [uUserInfo EXCEPT ![c] = getUserInfo(target).userInfo]
  /\ herr' = [herr EXCEPT ![c] = OnRequestErr(target)]
  /\ reqKind' = [reqKind EXCEPT ![c] = target.kind]
  /\ reqTarget' = [reqTarget EXCEPT ![c] = target]
  /\ upc' = [upc EXCEPT ![c] =
               IF OnRequestErr(target) # "nil" THEN "respond" ELSE "headers"]
  /\ UNCHANGED hseen
  /\ UNCHANGED <<compressionEnabled, uAutoClose, uss, extAccepted, nhdr, ret,
                 gotIsNew, negFailed, upgraded>>
  /\ UNCHANGED <<limVars, sessVars, wireVars, keyVars>>

\* The handshake itself rejects the request (bad method or version, a
\* required header missing or wrong, the connection failing while read): no
\* further hook is called.
HandshakeRejects(c) ==
  /\ upc[c] \in {"request", "headers"}
  /\ herr' = [herr EXCEPT ![c] = "ErrHandshake"]
  /\ upc' = [upc EXCEPT ![c] = "respond"]
  /\ UNCHANGED <<hseen, reqTarget>>
  /\ UNCHANGED <<compressionEnabled, uUserInfo, uAutoClose, uss, extAccepted,
                 nhdr, ret, reqKind, gotIsNew, negFailed, upgraded>>
  /\ UNCHANGED <<limVars, sessVars, wireVars, keyVars>>

\* The handshake reads one header line: an extension offer goes to the
\* Negotiate hook, any other non-handshake header to OnHeader. A hook's error
\* ends the reading of the request.
HeaderLine(c, h) ==
  /\ upc[c] = "headers"
  /\ nhdr[c] < MaxHeaders
  /\ nhdr' = [nhdr EXCEPT ![c] = @ + 1]
  /\ hseen' = [hseen EXCEPT ![c] =
                 IF Lower(h.name) = "x-autoclose"
                   THEN [lastAuto |-> IF h.value = "true" THEN "true"
                                      ELSE "other",
                         anyTrue |-> @.anyTrue \/ h.value = "true",
                         otherActed |-> @.otherActed,
                         offerOk |-> @.offerOk]
                   ELSE [@ EXCEPT !.otherActed =
                           \/ @
                           \/ /\ h.name # "Sec-WebSocket-Extensions"
                              /\ OnHeader(uAutoClose[c], h) # uAutoClose[c],
                                  !.offerOk =
                           \/ @
                           \/ /\ h.name = "Sec-WebSocket-Extensions"
                              /\ h.value = "deflate-ok"]]
  /\ IF h.name = "Sec-WebSocket-Extensions"
       THEN LET n == NegotiateHook(extAccepted[c], h.value)
            IN /\ extAccepted' = [extAccepted EXCEPT ![c] = n.accepted]
               /\ herr' = [herr EXCEPT ![c] = n.err]
               /\ negFailed' = [negFailed EXCEPT ![c] =
                                  @ \/ (compressionEnabled /\ ~n.accepted)]
               /\ upc' = [upc EXCEPT ![c] =
                            IF n.err # "nil" THEN "respond" ELSE "headers"]
               /\ UNCHANGED uAutoClose
       ELSE /\ uAutoClose' = [uAutoClose EXCEPT ![c] = OnHeader(@, h)]
            /\ UNCHANGED <<extAccepted, herr, negFailed, upc>>
  /\ UNCHANGED reqTarget
  /\ UNCHANGED <<compressionEnabled, uUserInfo, uss, ret, reqKind, gotIsNew,
                 upgraded>>
  /\ UNCHANGED <<limVars, sessVars, wireVars, keyVars>>

\* The empty line ends the headers.
EndOfHeaders(c) ==
  /\ upc[c] = "headers"
  /\ upc' = [upc EXCEPT ![c] = "before"]
  /\ UNCHANGED <<hseen, reqTarget>>
  /\ UNCHANGED <<compressionEnabled, uUserInfo, uAutoClose, uss, extAccepted,
                 herr, nhdr, ret, reqKind, gotIsNew, negFailed, upgraded>>
  /\ UNCHANGED <<limVars, sessVars, wireVars, keyVars>>

\* The OnBeforeUpgrade hook: userInfo.AutoClose = autoClose, then Build (the
\* script runs as one backend operation, or the backend fails), then ss = s
\* unless Build failed.
OnBeforeUpgrade(c, failed) ==
  /\ upc[c] = "before"
  /\ LET info == [uUserInfo[c] EXCEPT !.autoClose = uAutoClose[c]]
         s == newRedisSession(info)
         run == LuaSetSessionIfNotExist(s.key, now)
         scriptRet == IF failed THEN 0 ELSE run.ret
         out == BuildReturn(s, initialize(failed, scriptRet))
         e == OnBeforeUpgradeErr(out.err, out.isNew)
     IN /\ (~failed /\ ~LuaExists(s.key)) => now <= MaxClock
        /\ uUserInfo' = [uUserInfo EXCEPT ![c] = info]
        /\ store' = IF failed THEN store ELSE run.store
        /\ now' = IF ~failed /\ run.ret = 1 THEN now + 1 ELSE now
        /\ created' = IF ~failed /\ run.ret = 1
                        THEN [created EXCEPT ![s.key] = @ + 1] ELSE created
        /\ isNewCount' = IF out.isNew
                           THEN [isNewCount EXCEPT ![s.key] = @ + 1]
                           ELSE isNewCount
        /\ gotIsNew' = [gotIsNew EXCEPT ![c] =
                          IF out.err # "nil" THEN "failed"
                          ELSE IF out.isNew THEN "new" ELSE "existed"]
        /\ uss' = [uss EXCEPT ![c] = IF e = "nil" THEN out.session ELSE @]
        /\ herr' = [herr EXCEPT ![c] = e]
  /\ upc' = [upc EXCEPT ![c] = "respond"]
  /\ UNCHANGED <<spc, pend, bres, ores, deleted>>
  /\ UNCHANGED <<hseen, reqTarget>>
  /\ UNCHANGED <<compressionEnabled, uAutoClose, extAccepted, nhdr, ret,
                 reqKind, negFailed, upgraded>>
  /\ UNCHANGED <<limVars, wireVars, keyVars>>

\* The handshake answers and upgrader.Upgrade returns: after an error the
\* error response and (nil, nil, err); otherwise the 101 response, whose
\* write may fail, and then (ss, compressionState, nil).
Respond(c, writeFails) ==
  /\ upc[c] = "respond"
  /\ herr[c] # "nil" => ~writeFails
  /\ LET e == IF herr[c] # "nil" THEN herr[c]
              ELSE IF writeFails THEN "ErrWrite" ELSE "nil"
     IN /\ ret' = [ret EXCEPT ![c] =
                     IF e # "nil"
                       THEN [session |-> NilSession,
                             compression |-> NoCompression, err |-> e]
                       ELSE [session |-> uss[c],
                             compression |-> CompressionState(extAccepted[c]),
                             err |-> "nil"]]
        /\ upgraded' = [upgraded EXCEPT ![c] = (e = "nil")]
  /\ upc' = [upc EXCEPT ![c] = "done"]
  /\ UNCHANGED <<hseen, reqTarget>>
  /\ UNCHANGED <<compressionEnabled, uUserInfo, uAutoClose, uss, extAccepted,
                 herr, nhdr, reqKind, gotIsNew, negFailed>>
  /\ UNCHANGED <<limVars, sessVars, wireVars, keyVars>>

(* ======================= the Reader and the Writer ===================== *)

\* The bytes a payload is made of, and the payloads the callers write.
Bytes == {0, 1}

Payloads == UNION { [1..n -> Bytes] : n \in 0..MaxPayload }

\* What travels in a frame: a payload byte as it is, a unit of a deflate
\* stream (a run of n equal bytes), or the four bytes that end a deflate
\* block.
Raw(v) == [k |-> "raw", v |-> v]

Run(v, n) == [k |-> "run", v |-> v, n |-> n]

FlateTail == [k |-> "tail"]

\* The length of the run of equal bytes P starts with.
RECURSIVE RunLength(_)
RunLength(P) ==
  IF Len(P) <= 1 THEN Len(P)
  ELSE IF P[2] = P[1] THEN 1 + RunLength(Tail(P)) ELSE 1

\* The compressor (flate.Writer) on Write(p) and Close: the runs of p, then
\* the tail.
RECURSIVE DeflateRuns(_)
DeflateRuns(P) ==
  IF P = <<>> THEN <<>>
  ELSE <<Run(P[1], RunLength(P))>>
         \o DeflateRuns(SubSeq(P, RunLength(P) + 1, Len(P)))

Deflate(P) == DeflateRuns(P) \o <<FlateTail>>

\* wsflate.Writer: what reaches w.writer after Write(p) and Close: the
\* compressor's output without its tail.
FlateWriter(P) == SubSeq(Deflate(P), 1, Len(Deflate(P)) - 1)

\* The decompressor (flate.Reader) over a stream: the bytes it yields and the
\* error it ends with (io.EOF at the tail, an error where the stream ends
\* without one or holds something that is no deflate unit).
RECURSIVE Inflate(_)
Inflate(s) ==
  IF s = <<>> THEN [data |-> <<>>, err |-> "ErrUnexpectedEOF"]
  ELSE IF s[1].k = "tail" THEN [data |-> <<>>, err |-> "EOF"]
  ELSE IF s[1].k = "raw" THEN [data |-> <<>>, err |-> "ErrCorrupt"]
  ELSE LET r == Inflate(Tail(s))
       IN [data |-> [i \in 1..s[1].n |-> s[1].v] \o r.data, err |-> r.err]

\* The payload bytes read as they are: a deflate unit read so is no payload
\* byte of the sender.
AsPayload(s) == [i \in 1..Len(s) |-> IF s[i].k = "raw" THEN s[i].v ELSE -1]

\* ---- the Writer ----

\* wsutil.Writer with the messageState extension: the bytes of one message
\* go out in frames of at most FrameRoom bytes, the first a binary frame that
\* carries the compression bit of the Writer, the others continuations, the
\* last one (the one Flush sends) with fin. Write of no bytes followed by Flush
\* sends one empty frame.
RECURSIVE FragmentsUnmarked(_, _)
FragmentsUnmarked(bytes, first) ==
  LET op == IF first THEN "binary" ELSE "cont"
  IN IF Len(bytes) <= FrameRoom
     THEN <<[op |-> op, fin |-> TRUE, rsv1 |-> FALSE, bytes |-> bytes]>>
     ELSE <<[op |-> op, fin |-> FALSE, rsv1 |-> FALSE,
             bytes |-> SubSeq(bytes, 1, FrameRoom)]>>
            \o FragmentsUnmarked(SubSeq(bytes, FrameRoom + 1, Len(bytes)),
                                 FALSE)

RECURSIVE Fragments(_, _)
Fragments(bytes, first) ==
  LET op == IF first THEN "binary" ELSE "cont"
      bit == first /\ wCompressed
  IN IF Len(bytes) <= FrameRoom
     THEN <<[op |-> op, fin |-> TRUE, rsv1 |-> bit, bytes |-> bytes]>>
     ELSE <<[op |-> op, fin |-> FALSE, rsv1 |-> bit,
             bytes |-> SubSeq(bytes, 1, FrameRoom)]>>
            \o Fragments(SubSeq(bytes, FrameRoom + 1, Len(bytes)), FALSE)

\* NewServerSideWriter(dest, compressed): the Writer starts with nothing
\* written; the Reader on the other end of dest with nothing read.
WireInit ==
  /\ wCompressed \in BOOLEAN
  /\ wire = <<>>
  /\ sent = <<>>
  /\ got = <<>>
  /\ injected = FALSE
  /\ ctlHandled = 0

\* writeCompressed(p): what it puts on the stream.
writeCompressed(p) == Fragments(FlateWriter(p), TRUE)

\* writeUncompressed(p): what it puts on the stream.
writeUncompressed(p) == Fragments([i \in 1..Len(p) |-> Raw(p[i])], TRUE)

\* Writer.Write(p): a Writer made with compression compresses every payload,
\* one made without writes it as it is.
WriterWrite(p) ==
  /\ Len(sent) < MaxMsgs
  /\ wire' = wire \o (IF wCompressed THEN writeCompressed(p)
                                      ELSE writeUncompressed(p))
  /\ sent' = Append(sent, p)
  /\ UNCHANGED <<wCompressed, got, injected, ctlHandled>>
  /\ UNCHANGED <<limVars, sessVars, upVars, keyVars>>

\* ---- the Reader ----

\* What the peer and the transport can put into the stream besides the
\* Writer's frames: control frames, a frame whose header is not acceptable,
\* and the failure of the connection.
ControlOps == {"ping", "close"}

Faults == {"bad", "error"}

Other(op) == [op |-> op, fin |-> TRUE, rsv1 |-> FALSE, bytes |-> <<>>]

\* A frame or a fault arrives at position i of the unread stream, once; what
\* was behind a failure of the connection never arrives.
Arrive(i, op) ==
  /\ ~injected
  /\ i \in 0..Len(wire)
  /\ wire' = SubSeq(wire, 1, i) \o <<Other(op)>>
               \o (IF op = "error" THEN <<>>
                   ELSE SubSeq(wire, i + 1, Len(wire)))
  /\ injected' = TRUE
  /\ UNCHANGED <<wCompressed, sent, got, ctlHandled>>
  /\ UNCHANGED <<limVars, sessVars, upVars, keyVars>>

\* The outcome of reading from the stream: whether the call returns yet, the
\* bytes read, the error, the stream left and the control frames handled.
Blocked == [ready |-> FALSE, bytes |-> <<>>, err |-> "nil", rest |-> <<>>,
            handled |-> 0]

Done(bytes, err, rest, h) ==
  [ready |-> TRUE, bytes |-> bytes, err |-> err, rest |-> rest,
   handled |-> h]

\* wsutil.Reader.Read past the end of a frame without fin: the next frame
\* continues the message; a control frame in between goes to OnIntermediate
\* (the control handler: it answers a ping, and answers a close
\* and fails with a ClosedError); anything else is an error.
RECURSIVE Continue(_, _)
Continue(rest, h) ==
  IF rest = <<>> THEN Blocked
  ELSE LET g == rest[1]
           more == Tail(rest)
       IN CASE g.op = "cont" ->
                 LET r == IF g.fin THEN Done(<<>>, "nil", more, h)
                          ELSE Continue(more, h)
                 IN [r EXCEPT !.bytes = g.bytes \o @]
            [] g.op = "ping" -> Continue(more, h + 1)
            [] g.op = "close" -> Done(<<>>, "ClosedError", more, h + 1)
            [] g.op = "error" -> Done(<<>>, "ErrConn", rest, h)
            [] OTHER -> Done(<<>>, "ErrProtocol", more, h)

\* io.ReadAll(r.reader) once NextFrame returned the header of the data frame
\* f: the bytes read until the end of the message or until an error, and
\* that error.
ReadAll(f, rest, h) ==
  IF f.fin THEN Done(f.bytes, "nil", rest, h)
  ELSE [Continue(rest, h) EXCEPT !.bytes = f.bytes \o @]

\* io.ReadAll(r.flateReader) over the same bytes: wsflate.Reader puts the
\* tail back where the message ends, and the decompressor's output so far
\* comes back with the error where the message does not end well.
ReadAllFlate(f, rest, h) ==
  LET a == ReadAll(f, rest, h)
      z == Inflate(IF a.err = "nil" THEN a.bytes \o <<FlateTail>>
                   ELSE a.bytes)
  IN [a EXCEPT !.bytes = z.data,
               !.err = IF z.err = "EOF" THEN "nil"
                       ELSE IF z.err = "ErrUnexpectedEOF" THEN a.err
                       ELSE z.err]

\* Reader.Read(): the loop over NextFrame.
RECURSIVE Read(_, _)
Read(w, h) ==
  IF w = <<>> THEN Blocked
  ELSE LET f == w[1]
           rest == Tail(w)
       IN CASE f.op = "error" -> Done(<<>>, "ErrConn", w, h)
            [] f.op \in {"bad", "cont"} -> Done(<<>>, "ErrProtocol", rest, h)
            [] f.op = "ping" -> Read(rest, h + 1)
            [] f.op = "close" -> Done(<<>>, "ClosedError", rest, h + 1)
            [] OTHER ->
                 IF f.rsv1
                 THEN LET r == ReadAllFlate(f, rest, h)
                      IN IF r.ready THEN r ELSE Blocked
                 ELSE LET r == ReadAll(f, rest, h)
                      IN IF r.ready
                         THEN [r EXCEPT !.bytes = AsPayload(@)]
                         ELSE Blocked

\* One call of Read() that returns.
ReaderRead ==
  /\ Len(got) <= MaxMsgs
  /\ LET r == Read(wire, 0)
     IN /\ r.ready
        /\ got' = Append(got, [payload |-> r.bytes, err |-> r.err])
        /\ wire' = r.rest
        /\ ctlHandled' = ctlHandled + r.handled
  /\ UNCHANGED <<wCompressed, sent, injected>>
  /\ UNCHANGED <<limVars, sessVars, upVars, keyVars>>

(* =========================== specifications =========================== *)

Init ==
  /\ LimiterInit
  /\ SessionInit
  /\ UpgraderInit
  /\ WireInit /\ ~wCompressed
  /\ KeyIdle

Next ==
  \/ StartRampUp(1)
  \/ RampCancelled(1)
  \/ RampTick(1)
  \/ RampAddToken(1)
  \/ RampStore(1)
  \/ Acquire
  \/ Release
  \/ Close
  \/ CancelExternal(1)

Spec == Init /\ [][Next]_vars

\* The limiter with a ramp-up activity that nobody cancels: the runtime keeps
\* scheduling the activity and its ticker keeps firing, so every step of the
\* activity that stays possible is eventually taken. Callers are not obliged
\* to call anything.
LiveNext ==
  \/ StartRampUp(1)
  \/ RampTick(1)
  \/ RampAddToken(1)
  \/ RampStore(1)
  \/ Acquire
  \/ Release

LiveSpec ==
  /\ Init
  /\ [][LiveNext]_vars
  /\ WF_vars(StartRampUp(1))
  /\ WF_vars(RampTick(1))
  /\ WF_vars(RampAddToken(1))
  /\ WF_vars(RampStore(1))

\* The limiter with its ramp-up activity under every caller and both
\* cancellation sources: the runtime keeps scheduling the activity, so a step
\* of it that stays possible (leaving the select on a cancellation, the
\* store) is eventually taken, and a send that waits on the full channel
\* completes when a receive makes room (the channel serves its waiting
\* sender first). The ticker and the callers are not obliged to do anything.
CancelSpec ==
  /\ Init
  /\ [][Next]_vars
  /\ WF_vars(RampCancelled(1))
  /\ SF_vars(RampAddToken(1))
  /\ WF_vars(RampStore(1))

\* A Release that gives back a unit the caller holds.
MatchedRelease == outstanding > 0 /\ Release

\* The limiter with StartRampUp invoked twice, by callers that release only
\* what they acquired.
TwoRampNext ==
  \/ \E r \in RampIds : StartRampUp(r)
  \/ \E r \in RampIds : RampCancelled(r)
  \/ \E r \in RampIds : RampTick(r)
  \/ \E r \in RampIds : RampAddToken(r)
  \/ \E r \in RampIds : RampStore(r)
  \/ Acquire
  \/ MatchedRelease
  \/ Close
  \/ \E r \in RampIds : CancelExternal(r)

TwoRampSpec == Init /\ [][TwoRampNext]_vars

\* The limiter with one ramp-up activity and callers that release only what
\* they acquired.
MatchedNext ==
  \/ StartRampUp(1)
  \/ RampCancelled(1)
  \/ RampTick(1)
  \/ RampAddToken(1)
  \/ RampStore(1)
  \/ Acquire
  \/ MatchedRelease
  \/ Close
  \/ CancelExternal(1)

MatchedSpec == Init /\ [][MatchedNext]_vars

\* The limiter from before its construction: any configuration goes to
\* NewTokenLimiter, and the methods are called on the controller it returns.
ConstructInit ==
  /\ cfg \in ConfigInputs
  /\ newErr = "pending"
  /\ tokens = 0
  /\ currentCapacity = 0
  /\ closed = FALSE
  /\ extCancelled = [r \in RampIds |-> FALSE]
  /\ rpc = [r \in RampIds |-> "off"]
  /\ rcur = [r \in RampIds |-> 0]
  /\ rnew = [r \in RampIds |-> 0]
  /\ ri = [r \in RampIds |-> 0]
  /\ outstanding = 0
  /\ overReleases = 0
  /\ ticksDone = 0
  /\ last = NoCall
  /\ closeCalls = 0
  /\ SessionInit
  /\ UpgraderInit
  /\ WireInit /\ ~wCompressed
  /\ KeyIdle

ConstructNext ==
  \/ NewTokenLimiter
  \/ StartRampUp(1)
  \/ RampCancelled(1)
  \/ RampTick(1)
  \/ RampAddToken(1)
  \/ RampStore(1)
  \/ Acquire
  \/ Release
  \/ Close
  \/ CancelExternal(1)

ConstructSpec == ConstructInit /\ [][ConstructNext]_vars

\* Scenario A: a controller made with {initial=2, max=5, step=1}, callers
\* that only Acquire, and one ramp-up activity.
ScenarioAInit ==
  /\ cfg = [initial |-> 2, max |-> 5, step |-> 1, interval |-> 1]
  /\ ValidConfig(cfg)
  /\ newErr = "nil"
  /\ tokens = cfg.initial
  /\ currentCapacity = cfg.initial
  /\ closed = FALSE
  /\ extCancelled = [r \in RampIds |-> FALSE]
  /\ rpc = [r \in RampIds |-> "off"]
  /\ rcur = [r \in RampIds |-> 0]
  /\ rnew = [r \in RampIds |-> 0]
  /\ ri = [r \in RampIds |-> 0]
  /\ outstanding = 0
  /\ overReleases = 0
  /\ ticksDone = 0
  /\ last = NoCall
  /\ closeCalls = 0
  /\ SessionInit
  /\ UpgraderInit
  /\ WireInit /\ ~wCompressed
  /\ KeyIdle

ScenarioANext ==
  \/ StartRampUp(1)
  \/ RampCancelled(1)
  \/ RampTick(1)
  \/ RampAddToken(1)
  \/ RampStore(1)
  \/ Acquire
  \/ Close
  \/ CancelExternal(1)

ScenarioASpec == ScenarioAInit /\ [][ScenarioANext]_vars

\* The start of the specifications of the other components: the limiter is
\* held at one configuration.
IdleLimiterInit ==
  /\ LimiterInit
  /\ cfg = [initial |-> 1, max |-> 1, step |-> 1, interval |-> 1]
  /\ SessionInit
  /\ UpgraderInit
  /\ WireInit /\ ~wCompressed
  /\ KeyIdle

\* The callers of SessionSpec all work on one identity, so that their calls
\* meet on one key.
SessionInfos == { i \in UserInfos : i.userID = 7 }

SessionNext ==
  \/ \E p \in Procs, info \in SessionInfos : BuildStart(p, info)
  \/ \E p \in Procs, failed \in BOOLEAN : BuildRun(p, failed)
  \/ \E p \in Procs, field \in SetFields \cup {"loginTime"} : Get(p, field)
  \/ \E p \in Procs, field \in SetFields, value \in SetValues :
       Set(p, field, value)
  \/ \E p \in Procs, failed \in BOOLEAN : Destroy(p, failed)

SessionSpec == IdleLimiterInit /\ [][SessionNext]_vars

UpgradeNext ==
  \/ \E c \in Conns : UpgradeCall(c)
  \/ \E c \in Conns, target \in Targets : OnRequest(c, target)
  \/ \E c \in Conns : HandshakeRejects(c)
  \/ \E c \in Conns, h \in HeaderLines : HeaderLine(c, h)
  \/ \E c \in Conns : EndOfHeaders(c)
  \/ \E c \in Conns, failed \in BOOLEAN : OnBeforeUpgrade(c, failed)
  \/ \E c \in Conns, writeFails \in BOOLEAN : Respond(c, writeFails)

UpgradeSpec == IdleLimiterInit /\ [][UpgradeNext]_vars

\* The Writer and the Reader over one stream, with compression and without,
\* and with what the peer and the transport add to the stream.
WireInitAll ==
  /\ LimiterInit
  /\ cfg = [initial |-> 1, max |-> 1, step |-> 1, interval |-> 1]
  /\ SessionInit
  /\ UpgraderInit
  /\ ~compressionEnabled
  /\ WireInit
  /\ KeyIdle

WireNext ==
  \/ \E p \in Payloads : WriterWrite(p)
  \/ \E i \in 0..(MaxMsgs * MaxPayload) :
       \E op \in ControlOps \cup Faults : Arrive(i, op)
  \/ ReaderRead

WireSpec == WireInitAll /\ [][WireNext]_vars

\* Key derivation on its own: two identities, and the keys made for them.
KeyInit ==
  /\ LimiterInit
  /\ cfg = [initial |-> 1, max |-> 1, step |-> 1, interval |-> 1]
  /\ SessionInit
  /\ UpgraderInit
  /\ ~compressionEnabled
  /\ WireInit /\ ~wCompressed
  /\ keyArgs \in (KeyIds \X KeyIds) \X (KeyIds \X KeyIds)
  /\ keyOut = NoKeys

KeyNext == newRedisSessionKeys

KeySpec == KeyInit /\ [][KeyNext]_vars

(* ============================== claims ================================= *)

\* ceil((maxCapacity - initialCapacity) / increaseStep)
CeilTicks == (cfg.max - cfg.initial + cfg.step - 1) \div cfg.step

\* C1: in every reachable state 0 <= availableTokens <= currentCapacity <=
\* maxCapacity, whatever the interleaving of Acquire, Release, the steps of a
\* ramp tick and Close.
C1_PoolInvariant ==
  /\ 0 <= tokens
  /\ tokens <= currentCapacity
  /\ currentCapacity <= cfg.max

\* C2: a successful Acquire never leaves more units outstanding than
\* CurrentCapacity() reads at that moment.
C2_OutstandingWithinCapacity ==
  [][outstanding' = outstanding + 1 => outstanding' <= currentCapacity']_vars

\* C3: a Release called while no unit is outstanding returns failure and
\* leaves the available count at most CurrentCapacity(), at every capacity
\* level.
C3_OverReleaseFails ==
  [][overReleases' = overReleases + 1
       => (last'.ok = FALSE /\ tokens' <= currentCapacity')]_vars

\* C9: with one ramp-up activity CurrentCapacity() never decreases and never
\* exceeds maxCapacity.
C9_CapacityMonotoneBounded ==
  /\ [][currentCapacity' >= currentCapacity]_vars
  /\ [](currentCapacity <= cfg.max)

\* C9 witness: the capacity grew to the maximum over at least two ticks while
\* callers held units and Close had been called.
C9_Witness ==
  /\ ticksDone >= 2
  /\ currentCapacity = cfg.max
  /\ outstanding > 0
  /\ closed

\* C10: with one ramp-up activity that is not cancelled, CurrentCapacity()
\* equals maxCapacity once ceil((max - initial) / step) ticks have run, it
\* does get there whatever Acquire/Release calls are interleaved, and it
\* never changes afterwards.
C10_ReachesMaxAndStays ==
  /\ [](ticksDone >= CeilTicks => currentCapacity = cfg.max)
  /\ [][currentCapacity = cfg.max => currentCapacity' = cfg.max]_vars
  /\ <>[](currentCapacity = cfg.max)

\* C4: simultaneous Build calls with one identity on an absent key: exactly
\* one returns isNew=true, every other returns isNew=false with a handle on
\* the same key, and a Build returns an error only when the backend failed
\* under it. (Until a Destroy removes the record, which starts the key anew.)
C4_ExactlyOneIsNew ==
  \A k \in Keys :
    deleted[k] = 0 =>
      /\ isNewCount[k] <= 1
      /\ \A p \in Procs :
           (bres[p].done /\ bres[p].err # "nil") => bres[p].failed
      /\ \A p \in Procs :
           (bres[p].done /\ bres[p].err = "nil" /\ bres[p].session.key = k)
             => /\ isNewCount[k] = 1
                /\ ~bres[p].session.nil
                /\ \A q \in Procs \ {p} :
                     (bres[q].done /\ bres[q].err = "nil"
                        /\ bres[q].session.key = k)
                       => ~(bres[p].isNew /\ bres[q].isNew)

\* C4 witness: two callers were inside Build for the same key at the same
\* time; the one whose script ran first returned isNew=true and the other
\* isNew=false, no Destroy having touched the key.
C4_Witness ==
  \E p \in Procs, q \in Procs :
    /\ p # q
    /\ bres[p].done /\ bres[p].overlapped /\ bres[p].isNew
    /\ bres[q].done /\ bres[q].err = "nil" /\ ~bres[q].isNew
    /\ bres[p].session.key = bres[q].session.key
    /\ deleted[bres[p].session.key] = 0

\* C8 as claimed: over the whole history of Build, Get, Set and Destroy calls
\* on a key, Build creates the key's record at most once.
C8_CreatedAtMostOnceEver == \A k \in Keys : created[k] <= 1

\* C8 as amended: Build creates the record only when the key holds none, so
\* the records Build created for a key never number more than the records
\* Destroy removed from it plus one.
C8_CreatedOncePerLifetime == \A k \in Keys : created[k] <= deleted[k] + 1

\* C8 witness: a record was created, destroyed and created again by a later
\* Build, and a further Build on the recreated record found it existing.
C8_Witness ==
  \E k \in Keys :
    /\ created[k] = 2
    /\ deleted[k] = 1
    /\ \E p \in Procs :
         bres[p].done /\ bres[p].err = "nil" /\ ~bres[p].isNew
           /\ bres[p].session.key = k

\* The request targets that fail authentication.
BadTargetKinds == {"badURI", "noToken", "badToken", "expiredToken"}

\* C5 as claimed: an Upgrade that found the session existing succeeds like
\* one that created it, and its result differs from the result of an Upgrade
\* that created the session, so that the caller can tell the two apart.
C5_DuplicateDistinguishable ==
  \A c \in Conns, d \in Conns :
    (/\ upc[c] = "done" /\ gotIsNew[c] = "existed" /\ ret[c].err = "nil"
     /\ upc[d] = "done" /\ gotIsNew[d] = "new" /\ ret[d].err = "nil")
      => ret[c] # ret[d]

\* C6: when the request target fails authentication, the handshake reads no
\* further, Build is never invoked for that call, and Upgrade returns the
\* authentication error with no session and no compression state, the
\* connection not upgraded.
C6_AuthFailureAborts ==
  \A c \in Conns :
    reqKind[c] \in BadTargetKinds =>
      /\ upc[c] \in {"respond", "done"}
      /\ gotIsNew[c] = "none"
      /\ uss[c] = NilSession
      /\ upc[c] = "done" =>
           /\ ret[c].err \in {"ErrInvalidURI", "ErrInvalidUserToken"}
           /\ ret[c].err = "ErrInvalidURI" <=> reqKind[c] = "badURI"
           /\ ret[c].session = NilSession
           /\ ret[c].compression = NoCompression
           /\ ~upgraded[c]

\* C6 witness: an Upgrade whose token had expired has returned, while another
\* connection was upgraded and has its session in the store.
C6_Witness ==
  \E c \in Conns, d \in Conns :
    /\ upc[c] = "done" /\ reqKind[c] = "expiredToken"
    /\ upc[d] = "done" /\ upgraded[d] /\ gotIsNew[d] = "new"

\* C7 as claimed: with compression enabled, a deflate offer that is refused
\* (declined, or an error of the negotiation hook) never makes Upgrade fail:
\* Upgrade does not return the negotiation's error, and a handshake that
\* completes without an accepted offer returns no compression state.
C7_NegotiationNeverFatal ==
  \A c \in Conns :
    (upc[c] = "done" /\ compressionEnabled /\ negFailed[c]
       /\ ~extAccepted[c])
      => /\ ret[c].err # "ErrNegotiate"
         /\ ret[c].err = "nil" => ret[c].compression = NoCompression

\* A ramp-up activity is idle: not started, waiting in its select, or gone.
RampIdle(r) == rpc[r] \in {"off", "select", "exited"}

\* A ramp-up activity waits in its add loop on a channel that is full.
RampBlocked(r) ==
  /\ rpc[r] = "adding"
  /\ ri[r] < rnew[r] - rcur[r]
  /\ ~(tokens < ChanCap)

\* C11 as claimed: once the external cancellation has fired or Close has been
\* called, a ramp-up activity that is running, waiting on its timer or in the
\* middle of adding units, eventually terminates.
C11_RampUpTerminates ==
  ((closed \/ extCancelled[1]) /\ rpc[1] \in {"select", "adding"})
    ~> (rpc[1] = "exited")

\* C12 as claimed: with two ramp-up activities CurrentCapacity() never
\* decreases and never exceeds maxCapacity, available + outstanding is at
\* most CurrentCapacity() whenever both activities are idle, and no activity
\* ever waits to add a unit.
C12_TwoRampUpsSafe ==
  /\ [][currentCapacity' >= currentCapacity]_vars
  /\ [](currentCapacity <= cfg.max)
  /\ []((\A r \in RampIds : RampIdle(r))
          => tokens + outstanding <= currentCapacity)
  /\ [](\A r \in RampIds : ~RampBlocked(r))

\* A step that is a call of Acquire or Release with a visible effect: the
\* ramp-up activity and the cancellation sources stand still.
CallStep ==
  /\ UNCHANGED <<currentCapacity, closed, closeCalls, extCancelled, rpc,
                 rcur, rnew, ri, ticksDone>>
  /\ <<tokens, outstanding, overReleases, last>>'
       # <<tokens, outstanding, overReleases, last>>

\* C13: every call of Close, the first and the repeated ones, leaves the
\* available units, CurrentCapacity() and the outstanding units as they were
\* and only marks the internal context cancelled; an Acquire or Release
\* after Close returns what the pool alone determines, as without Close.
C13_CloseLeavesPoolUntouched ==
  /\ [][closeCalls' = closeCalls + 1
          => /\ closed'
             /\ UNCHANGED <<cfg, tokens, currentCapacity, outstanding,
                            overReleases, last, extCancelled, rpc>>]_vars
  /\ [][(closed /\ CallStep)
          => IF last'.op = "Acquire"
               THEN /\ last'.ok <=> tokens > 0
                    /\ tokens' = IF tokens > 0 THEN tokens - 1 ELSE tokens
               ELSE /\ last'.ok <=> tokens < cfg.max
                    /\ tokens' = IF tokens < cfg.max THEN tokens + 1
                                 ELSE tokens]_vars

\* C13 witness: Close was called twice while a unit was out, and an Acquire
\* made after Close succeeded.
C13_Witness ==
  /\ closeCalls >= 2
  /\ outstanding >= 2
  /\ last = [op |-> "Acquire", ok |-> TRUE, over |-> FALSE, closed |-> TRUE]

\* C14: Acquire can be called and returns in every state; it returns true
\* exactly when a unit is available and then takes exactly one unit; when
\* the pool is empty it returns false and leaves the available count, the
\* outstanding units and CurrentCapacity() as they were.
C14_AcquireNeverBlocks ==
  /\ [](ENABLED Acquire)
  /\ [][(CallStep /\ last'.op = "Acquire")
          => /\ last'.ok <=> tokens > 0
             /\ last'.ok => /\ tokens' = tokens - 1
                            /\ outstanding' = outstanding + 1
             /\ ~last'.ok => UNCHANGED <<tokens, outstanding,
                                         currentCapacity>>]_vars

\* C14 witness: the pool is empty with units out, and the last call was an
\* Acquire that returned false.
C14_Witness ==
  /\ tokens = 0
  /\ outstanding >= 2
  /\ last.op = "Acquire"
  /\ ~last.ok

\* C15 as claimed: NewTokenLimiter returns a controller exactly for the
\* acceptable configurations and otherwise a configuration error and no
\* controller; the controller starts with InitialCapacity units available
\* and CurrentCapacity() = InitialCapacity; and on a controller made with
\* InitialCapacity = 0 every Acquire before the first tick returns false.
C15_Construction ==
  /\ [](newErr # "pending"
          => (newErr = "nil"
                <=> /\ cfg.initial >= 0
                    /\ cfg.max > 0
                    /\ cfg.step > 0
                    /\ cfg.interval > 0
                    /\ cfg.initial <= cfg.max))
  /\ []((newErr # "pending" /\ newErr # "nil")
          => /\ tokens = 0 /\ currentCapacity = 0 /\ outstanding = 0
             /\ rpc[1] = "off" /\ last = NoCall /\ ~closed)
  /\ [][(newErr = "pending" /\ newErr' = "nil")
          => /\ tokens' = cfg.initial
             /\ currentCapacity' = cfg.initial
             /\ tokens' <= cfg.max]_vars
  /\ [][(cfg.initial = 0 /\ rpc[1] \in {"off", "select"} /\ ticksDone = 0
           /\ CallStep /\ last'.op = "Acquire")
          => ~last'.ok]_vars

\* C16: two Upgrade calls in progress at once for one identity, whose Build
\* the backend served: both get a session handle on the same key, the record
\* was created exactly once, exactly one of the two saw the session existing,
\* and each returns success with its handle (unless the writing of its
\* response fails).
C16_ConcurrentUpgrades ==
  \A c \in Conns, d \in Conns :
    (/\ c # d
     /\ gotIsNew[c] \in {"new", "existed"}
     /\ gotIsNew[d] \in {"new", "existed"}
     /\ uUserInfo[c].bizID = uUserInfo[d].bizID
     /\ uUserInfo[c].userID = uUserInfo[d].userID)
      => /\ ~uss[c].nil /\ ~uss[d].nil
         /\ uss[c].key = uss[d].key
         /\ uss[c].key = keyFormat(uUserInfo[c].bizID, uUserInfo[c].userID)
         /\ created[uss[c].key] = 1
         /\ (gotIsNew[c] = "existed") # (gotIsNew[d] = "existed")
         /\ \A x \in {c, d} :
              upc[x] = "done"
                => /\ ret[x].err \in {"nil", "ErrWrite"}
                   /\ ret[x].err = "nil"
                        => (ret[x].session = uss[x] /\ upgraded[x])

\* C16 witness: the call that found the session existing has returned
\* success while the call that created it, which ran its Build first, has
\* not answered yet.
C16_Witness ==
  \E c \in Conns, d \in Conns :
    /\ c # d
    /\ upc[c] = "done" /\ gotIsNew[c] = "existed" /\ ret[c].err = "nil"
    /\ upc[d] = "respond" /\ gotIsNew[d] = "new" /\ herr[d] = "nil"
    /\ ret[c].session.key = uss[d].key

\* C17: when Build fails in the backend during OnBeforeUpgrade, the call has
\* no session, Upgrade returns the session-creation error with neither a
\* session nor a compression state, and the connection is not upgraded.
C17_BuildFailureAborts ==
  \A c \in Conns :
    gotIsNew[c] = "failed" =>
      /\ upc[c] \in {"respond", "done"}
      /\ uss[c] = NilSession
      /\ herr[c] = "ErrCreateSessionFailed"
      /\ upc[c] = "done" =>
           /\ ret[c].err = "ErrCreateSessionFailed"
           /\ ret[c].session = NilSession
           /\ ret[c].compression = NoCompression
           /\ ~upgraded[c]

\* C17 witness: an Upgrade whose deflate offer had been accepted returned
\* after Build failed under it, the store holding no record for its key.
C17_Witness ==
  \E c \in Conns :
    /\ upc[c] = "done" /\ gotIsNew[c] = "failed"
    /\ compressionEnabled /\ extAccepted[c]
    /\ ~LuaExists(keyFormat(uUserInfo[c].bizID, uUserInfo[c].userID))

\* C18: a Build under which the backend failed returns ErrCreateSessionFailed
\* (wrapped), a nil session and isNew=false; a Build the backend served never
\* returns an error: for a record that existed it returns a handle on the
\* key, isNew=false and a nil error.
C18_BuildErrors ==
  \A p \in Procs :
    bres[p].done =>
      /\ bres[p].failed
           => /\ bres[p].err = "ErrCreateSessionFailed"
              /\ bres[p].session = NilSession
              /\ ~bres[p].isNew
      /\ ~bres[p].failed
           => /\ bres[p].err = "nil"
              /\ ~bres[p].session.nil
              /\ bres[p].session.key \in Keys
              /\ bres[p].session.key
                   = keyFormat(bres[p].session.userInfo.bizID,
                               bres[p].session.userInfo.userID)

\* C18 witness: one caller's Build failed in the backend, and another's found
\* the record existing and returned a handle with isNew=false and no error.
C18_Witness ==
  \E p \in Procs, q \in Procs :
    /\ bres[p].done /\ bres[p].failed
    /\ bres[q].done /\ ~bres[q].failed /\ ~bres[q].isNew
    /\ bres[q].err = "nil" /\ LuaExists(bres[q].session.key)

\* C19 as claimed: the identity bound to the session has autoClose = true
\* exactly when the request carried an auto-close header (in any spelling of
\* the name) whose value is "true", and no header that is neither the
\* auto-close header nor an extension offer has any effect.
C19_AutoCloseIffCarriedTrue ==
  \A c \in Conns :
    /\ ~hseen[c].otherActed
    /\ ~uss[c].nil => (uss[c].userInfo.autoClose <=> hseen[c].anyTrue)

\* C19 as amended: the identity bound to the session has autoClose = true
\* exactly when the last auto-close header of the request (in any spelling
\* of the name) has the value "true"; without such a header it is false; and
\* no header that is neither the auto-close header nor an extension offer
\* has any effect.
C19_AutoCloseFromLastHeader ==
  \A c \in Conns :
    /\ ~hseen[c].otherActed
    /\ uAutoClose[c] <=> hseen[c].lastAuto = "true"
    /\ ~uss[c].nil => (uss[c].userInfo.autoClose <=> hseen[c].lastAuto = "true")
    /\ (upc[c] = "done" /\ ret[c].err = "nil")
         => /\ ret[c].session = uss[c]
            /\ ~uss[c].nil

\* C19 witness: one Upgrade returned a session with autoClose = true, and
\* another, whose request carried an auto-close header with the value "true"
\* and a later one with another value, returned one with autoClose = false.
C19_Witness ==
  \E c \in Conns, d \in Conns :
    /\ upc[c] = "done" /\ ret[c].err = "nil"
    /\ ret[c].session.userInfo.autoClose
    /\ upc[d] = "done" /\ ret[d].err = "nil"
    /\ ~ret[d].session.userInfo.autoClose
    /\ hseen[d].anyTrue

\* C20: a Destroy that succeeds removes the whole record; a Get of any field
\* made through any handle on the key after that, before a Build or Set
\* writes the key again, returns not-found (redis.Nil); and a handle whose
\* session was destroyed still takes Get and Set calls, which go to the
\* backend.
C20_DestroyRemovesRecord ==
  /\ [][\A k \in Keys :
          deleted'[k] = deleted[k] + 1
            => /\ store'[k] = NoRecord
               /\ \A f \in SetFields \cup {"loginTime"} :
                    ~HGet(store'[k], f).found]_vars
  /\ [](\A p \in Procs :
          (ores[p].op = "Get" /\ ores[p].gone)
            => (~ores[p].found /\ ores[p].err = "redis.Nil"))
  /\ [](\A p \in Procs :
          (/\ spc[p] = "idle" /\ ~bres[p].session.nil
           /\ deleted[bres[p].session.key] > 0)
            => /\ ENABLED Get(p, "loginTime")
               /\ ENABLED Set(p, "role", "admin"))

\* C20 witness: one caller's Destroy removed the record; the other caller's
\* Get through its own handle then returned not-found; and a Set through a
\* handle then wrote the key again, which now holds that field alone.
C20_Witness ==
  \E p \in Procs, q \in Procs, k \in Keys :
    /\ p # q
    /\ ores[p].op = "Destroy" /\ ores[p].err = "nil"
    /\ ores[q].op = "Get" /\ ores[q].gone
    /\ ~bres[p].session.nil /\ bres[p].session.key = k
    /\ ~bres[q].session.nil /\ bres[q].session.key = k
    /\ deleted[k] = 1 /\ created[k] = 1
    /\ store[k].has = {"role"}

\* C21: in scenario A the first two Acquire calls succeed and a third fails
\* as long as no tick has begun; once exactly one tick has run to its Store,
\* CurrentCapacity() is 3, a third Acquire succeeds and a fourth fails.
C21_ScenarioA ==
  /\ [](ticksDone = 1 => currentCapacity = 3)
  /\ [][(CallStep /\ last'.op = "Acquire" /\ ticksDone = 0
           /\ rpc[1] \in {"off", "select", "exited"})
          => (last'.ok <=> outstanding < 2)]_vars
  /\ [][(CallStep /\ last'.op = "Acquire" /\ ticksDone = 1
           /\ rpc[1] \in {"select", "exited"})
          => (last'.ok <=> outstanding < 3)]_vars

\* C21 witness: one tick has run, three units are out and the last Acquire,
\* the fourth, returned false.
C21_Witness ==
  /\ cfg = [initial |-> 2, max |-> 5, step |-> 1, interval |-> 1]
  /\ ticksDone = 1
  /\ rpc[1] = "select"
  /\ outstanding = 3
  /\ last.op = "Acquire" /\ ~last.ok

\* C22: as long as the stream holds nothing but what the Writer wrote, the
\* Reads return, without error and in the order written, exactly the payloads
\* written, one message each, with compression and without; and a message
\* written and not yet read can be read.
C22_RoundTrip ==
  ~injected =>
    /\ Len(got) <= Len(sent)
    /\ \A i \in 1..Len(got) :
         got[i] = [payload |-> sent[i], err |-> "nil"]
    /\ Len(got) < Len(sent) => Read(wire, 0).ready

C22_Witness ==
  /\ wCompressed
  /\ ~injected
  /\ sent = << <<0, 1>>, <<1, 1>> >>
  /\ Len(got) = 2
  /\ got[1].payload = <<0, 1>>
  /\ got[2].payload = <<1, 1>>

\* Whether the sequence a is what is left of b when some of its elements are
\* taken out.
RECURSIVE InOrder(_, _)
InOrder(a, b) ==
  IF a = <<>> THEN TRUE
  ELSE IF b = <<>> THEN FALSE
  ELSE IF a[1] = b[1] THEN InOrder(Tail(a), Tail(b))
  ELSE InOrder(a, Tail(b))

\* The payloads of the Reads that returned without error, in order.
Delivered ==
  LET ok == SelectSeq(got, LAMBDA g : g.err = "nil")
  IN [i \in 1..Len(ok) |-> ok[i].payload]

\* C23: every Read that returns without error returns one whole message, the
\* messages come in the order they were written and no control frame comes
\* back as a payload; every Read that returns an error returns no payload
\* with it.
C23_ReadReturnsOneMessage ==
  /\ InOrder(Delivered, sent)
  /\ \A i \in 1..Len(got) : got[i].err # "nil" => got[i].payload = <<>>

\* C24: the keys of two handles are equal exactly when the two handles were
\* made for the same (bizID, userID), whatever the numbers: zero, negative,
\* of one digit or more.
C24_KeyInjective ==
  keyOut # NoKeys => (keyOut[1] = keyOut[2] <=> keyArgs[1] = keyArgs[2])

C24_Witness ==
  /\ keyOut # NoKeys
  /\ keyArgs = <<<<-1, 10>>, <<-11, 0>>>>
  /\ keyOut[1] # keyOut[2]

\* C25: within one Upgrade call Build is invoked only after the target was
\* authenticated, with the response not written before or by that step, and
\* with the auto-close setting the header lines read gave (that of the last
\* auto-close header, false without one); once Build was invoked for the call
\* it is not invoked again and no header line is read any more.
C25_HookOrder ==
  /\ [](\A c \in Conns :
          gotIsNew[c] # "none" => upc[c] \in {"respond", "done"})
  /\ [][\A c \in Conns :
          /\ (gotIsNew[c] = "none" /\ gotIsNew'[c] # "none") =>
               /\ reqKind[c] = "valid"
               /\ ret[c] = NoReturn /\ ret'[c] = NoReturn
               /\ ~upgraded'[c]
               /\ uUserInfo'[c].autoClose = (hseen[c].lastAuto = "true")
          /\ gotIsNew[c] # "none" =>
               /\ gotIsNew'[c] = gotIsNew[c]
               /\ nhdr'[c] = nhdr[c]
               /\ hseen'[c] = hseen[c]
               /\ uUserInfo'[c] = uUserInfo[c]]_vars

\* C25 witness: an Upgrade that read two header lines, the last auto-close
\* header saying true, has bound its session with autoClose and returned.
C25_Witness ==
  \E c \in Conns :
    /\ nhdr[c] = 2
    /\ hseen[c].lastAuto = "true"
    /\ gotIsNew[c] = "new"
    /\ uUserInfo[c].autoClose
    /\ upgraded[c]
    /\ ~ret[c].session.nil

\* C26: a Build on a key whose record exists leaves the whole store as it
\* was (the creation timestamp and every field stored with Set) and returns
\* isNew=false.
C26_BuildOnExistingWritesNothing ==
  [][\A p \in Procs :
       (spc[p] = "init" /\ spc'[p] # "init" /\ LuaExists(pend[p].key)) =>
         /\ store' = store
         /\ bres'[p].done /\ ~bres'[p].isNew]_vars

\* C26 witness: a Build has returned isNew=false with a nil error for a key
\* whose record holds a creation timestamp and a field stored with Set.
C26_Witness ==
  \E p \in Procs :
    /\ bres[p].done /\ ~bres[p].failed /\ ~bres[p].isNew
    /\ spc[p] = "idle"
    /\ store[bres[p].session.key].has = {"loginTime", "role"}

\* C27: an Upgrade that succeeded returns a compression state that is there,
\* enabled and with the negotiated parameters exactly when compression is
\* enabled in the configuration and an acceptable offer was among the header
\* lines; in every other successful case it returns none.
C27_CompressionState ==
  \A c \in Conns :
    (upc[c] = "done" /\ ret[c].err = "nil") =>
      IF compressionEnabled /\ hseen[c].offerOk
        THEN ret[c].compression =
               [nil |-> FALSE, enabled |-> TRUE, parameters |-> "negotiated"]
        ELSE ret[c].compression = NoCompression

\* C27 witness: with compression enabled one Upgrade succeeded after an offer
\* that was declined and one that was accepted, and another succeeded with
\* no acceptable offer and returned no compression state.
C27_Witness ==
  \E c \in Conns, d \in Conns :
    /\ compressionEnabled
    /\ upc[c] = "done" /\ ret[c].err = "nil"
    /\ negFailed[c] /\ hseen[c].offerOk
    /\ ~ret[c].compression.nil
    /\ upc[d] = "done" /\ ret[d].err = "nil"
    /\ ~hseen[d].offerOk
    /\ ret[d].compression = NoCompression

\* C28: a tick that finds currentCapacity at maxCapacity ends the ramp-up
\* activity with no unit added and currentCapacity as it was; any other tick
\* adds units one by one, min(currentCapacity + increaseStep, maxCapacity) -
\* currentCapacity of them when it stores, and what it stores is that minimum.
C28_TickAddsThenStores ==
  [][\A r \in {1} :
       LET target == IF currentCapacity + cfg.step > cfg.max THEN cfg.max
                     ELSE currentCapacity + cfg.step
       IN /\ (rpc[r] = "select" /\ rpc'[r] # "select"
                /\ currentCapacity >= cfg.max) =>
               /\ rpc'[r] = "exited"
               /\ tokens' = tokens
               /\ currentCapacity' = currentCapacity
          /\ (rpc[r] = "select" /\ rpc'[r] = "adding") =>
               /\ currentCapacity < cfg.max
               /\ ri'[r] = 0
               /\ tokens' = tokens
               /\ currentCapacity' = currentCapacity
          /\ (rpc[r] = "adding" /\ ri'[r] # ri[r]) =>
               /\ ri'[r] = ri[r] + 1
               /\ ri'[r] <= target - currentCapacity
               /\ tokens' = tokens + 1
               /\ currentCapacity' = currentCapacity
          /\ (rpc[r] = "adding" /\ rpc'[r] # "adding") =>
               /\ rpc'[r] = "select"
               /\ ri[r] = target - currentCapacity
               /\ tokens' = tokens
               /\ currentCapacity' = target]_vars

\* C28 witness: from 0 with step 2 and maximum 3 the activity has stored 2,
\* then 3, and has left at the third tick, with no cancellation.
C28_Witness ==
  /\ cfg.initial = 0 /\ cfg.step = 2 /\ cfg.max = 3
  /\ ticksDone = 2
  /\ currentCapacity = 3
  /\ rpc[1] = "exited"
  /\ ~closed /\ ~extCancelled[1]

\* C29: an Upgrade that returns an error has created no session record: its
\* Build, if it was called at all, did not return isNew=true.
C29_FailedUpgradeLeavesNoRecord ==
  \A c \in Conns :
    (upc[c] = "done" /\ ret[c].err # "nil") => gotIsNew[c] # "new"

\* C30: with one ramp-up activity and callers that release only units they
\* hold, every Release returns true, whatever the capacity and wherever the
\* ramp-up activity is in its tick; and the units available and outstanding
\* together never exceed the channel's room.
C30_MatchedReleaseSucceeds ==
  /\ [](tokens + outstanding <= ChanCap)
  /\ [][(CallStep /\ last'.op = "Release") => last'.ok]_vars

\* C30 witness: a Release has succeeded while the tick had sent its units and
\* not yet stored the new capacity, so that more units are available than
\* CurrentCapacity() says.
C30_Witness ==
  /\ last.op = "Release" /\ last.ok /\ ~last.over
  /\ rpc[1] = "adding"
  /\ ri[1] > 0
  /\ tokens > currentCapacity

\* C31: with one ramp-up activity and callers that release only units they
\* hold, the units available and the units outstanding together are
\* currentCapacity whenever the activity is not between a tick's load and its
\* store, and never more than maxCapacity.
C31_UnitConservation ==
  /\ rpc[1] # "adding" => tokens + outstanding = currentCapacity
  /\ tokens + outstanding <= cfg.max

\* C31 witness: after a completed tick, with the activity back in its select,
\* some units are out, one was just given back, and the count is exact.
C31_Witness ==
  /\ rpc[1] = "select"
  /\ ticksDone >= 1
  /\ last.op = "Release" /\ last.ok
  /\ outstanding > 0 /\ tokens > 0
  /\ tokens + outstanding = currentCapacity

\* C32: every record that exists in the store holds the creation timestamp,
\* whatever Build, Set and Destroy calls were made through whatever handles.
C32_RecordHasLoginTime ==
  \A k \in Keys : store[k].has # {} => "loginTime" \in store[k].has

\* C33: the handles Build returned for one key report the same UserInfo,
\* autoClose included: the handle of a Build that found the record equals in
\* identity the handle of the Build that created it.
C33_HandlesAgreeOnUserInfo ==
  \A p \in Procs, q \in Procs :
    (/\ bres[p].done /\ ~bres[p].session.nil
     /\ bres[q].done /\ ~bres[q].session.nil) =>
      (bres[p].session.key = bres[q].session.key
         => bres[p].session.userInfo = bres[q].session.userInfo)

\* C34 as claimed: once an auto-close header with the value "true" was read
\* in a handshake, no later header line resets the flag, and the identity
\* bound has autoClose = true.
C34_AutoCloseLatched ==
  /\ [][\A c \in Conns : uAutoClose[c] => uAutoClose'[c]]_vars
  /\ [](\A c \in Conns :
          (gotIsNew[c] # "none" /\ hseen[c].anyTrue)
            => uUserInfo[c].autoClose)

\* C34 as amended: the flag holds the value of the last auto-close header
\* read: once it is true only a later auto-close header with another value
\* resets it, no other header line does, and the identity bound has
\* autoClose = true exactly when the last auto-close header said "true".
C34_AutoCloseHeldUntilOverwritten ==
  /\ [][\A c \in Conns :
          (uAutoClose[c] /\ ~uAutoClose'[c]) =>
            /\ nhdr'[c] = nhdr[c] + 1
            /\ hseen[c].lastAuto = "true"
            /\ hseen'[c].lastAuto = "other"]_vars
  /\ [](\A c \in Conns :
          gotIsNew[c] # "none"
            => (uUserInfo[c].autoClose <=> hseen[c].lastAuto = "true"))

\* C34 witness: a handshake read an auto-close header saying "true" and then
\* one with another value, and bound its identity with autoClose = false.
C34_Witness ==
  \E c \in Conns :
    /\ hseen[c].anyTrue
    /\ hseen[c].lastAuto = "other"
    /\ gotIsNew[c] = "new"
    /\ ~uUserInfo[c].autoClose

\* C35: what an Upgrade returns for a connection is decided by that
\* connection's own request: the identity by its own target, the auto-close
\* flag by its own header lines, the compression state by its own offers,
\* the authentication and negotiation errors by its own target and offers;
\* and a step of the handshake of one connection leaves the locals and the
\* result of every other connection as they were.
C35_UpgradesDoNotInterfere ==
  /\ [](\A c \in Conns :
          upc[c] = "done" =>
            /\ ret[c].err = "nil" =>
                 /\ ret[c].session.userInfo =
                      [bizID |-> reqTarget[c].bizID,
                       userID |-> reqTarget[c].userID,
                       autoClose |-> (hseen[c].lastAuto = "true")]
                 /\ ret[c].compression =
                      IF compressionEnabled /\ hseen[c].offerOk
                        THEN [nil |-> FALSE, enabled |-> TRUE,
                              parameters |-> "negotiated"]
                        ELSE NoCompression
            /\ ret[c].err \in {"ErrInvalidURI", "ErrInvalidUserToken"}
                 <=> getUserInfo(reqTarget[c]).err # "nil"
            /\ ret[c].err = "ErrNegotiate" => negFailed[c])
  /\ [][\A c \in Conns, d \in Conns :
          (c # d /\ <<upc[d], nhdr[d]>>' # <<upc[d], nhdr[d]>>) =>
            <<upc[c], uUserInfo[c], uAutoClose[c], uss[c], extAccepted[c],
              herr[c], ret[c]>>'
              = <<upc[c], uUserInfo[c], uAutoClose[c], uss[c],
                  extAccepted[c], herr[c], ret[c]>>]_vars

\* C35 witness: two Upgrades on one Upgrader with compression enabled have
\* returned, one for user 7 with autoClose and a compression state, the other
\* for user 8 without autoClose and without a compression state.
C35_Witness ==
  \E c \in Conns, d \in Conns :
    /\ compressionEnabled
    /\ upc[c] = "done" /\ ret[c].err = "nil"
    /\ reqTarget[c].userID = 7
    /\ ret[c].session.userInfo.userID = 7
    /\ ret[c].session.userInfo.autoClose
    /\ ~ret[c].compression.nil
    /\ upc[d] = "done" /\ ret[d].err = "nil"
    /\ reqTarget[d].userID = 8
    /\ ret[d].session.userInfo.userID = 8
    /\ ~ret[d].session.userInfo.autoClose
    /\ ret[d].compression = NoCompression

====
